---- MODULE Spec2Model ----
(***************************************************************************)
(* Authentication and session layer of node-ts-drizzle-starter:           *)
(* the token helper (hooks/useToken), the authorization middleware, the    *)
(* session service, the auth service and the /api/auth routes, over the    *)
(* "user" and "userSession" tables.                                        *)
(*                                                                         *)
(* A request is handled by one process; every await on the database or     *)
(* the mailer is a scheduling point, so each handler is a chain of atomic  *)
(* steps, one per database statement.  Time is counted in hours.           *)
(*                                                                         *)
(* Next to them: config/ms, the paging of hooks/useTable, and the life of  *)
(* the Node process in main.ts (bootstrap with the database check, the     *)
(* HTTP server, the graceful shutdown).                                    *)
(***************************************************************************)
EXTENDS Integers, Sequences, FiniteSets, Bags, TLC

(***************************************************************************)
(* Bounds of the model                                                     *)
(***************************************************************************)
\* the clock runs over 0..MaxTime (hours)
MaxTime == 1

\* the strings handed to ms have up to MaxStrLen characters
MaxStrLen == 3

\* findPage runs on tables of up to MaxRows rows, for pages up to MaxPage
\* of up to MaxPageSize rows
MaxRows == 22
MaxPage == 3
MaxPageSize == 3

\* the shutdown handlers run for up to MaxSignals signals or uncaught
\* exceptions
MaxSignals == 2

Procs == {1, 2}
Emails == {"a", "b"}
Passwords == {"p1", "p2"}

\* JWT_SECRET_ACCESS_TOKEN and a key the server does not use
Secret == "K"
OtherKey == "K2"

\* absent values: null / undefined for records, "" for strings, <<>> for
\* a header string, -1 for numbers
Null == [null |-> TRUE]
NoStr == ""
NoNum == 0 - 1

(***************************************************************************)
(* config/ms                                                               *)
(***************************************************************************)
Digits == <<"0", "1", "2", "3", "4", "5", "6", "7", "8", "9">>

IsDigit(c) == \E i \in 1..10 : Digits[i] = c

DigitVal(c) == (CHOOSE i \in 1..10 : Digits[i] = c) - 1

\* number of leading digit characters of s
RECURSIVE LeadDigits(_)
LeadDigits(s) ==
  IF s = <<>> \/ ~IsDigit(Head(s)) THEN 0 ELSE 1 + LeadDigits(Tail(s))

RECURSIVE DecVal(_, _)
DecVal(s, acc) ==
  IF s = <<>> THEN acc ELSE DecVal(Tail(s), 10 * acc + DigitVal(Head(s)))

RECURSIVE SkipBlanks(_)
SkipBlanks(s) ==
  IF s # <<>> /\ Head(s) = " " THEN SkipBlanks(Tail(s)) ELSE s

\* parseInt(s, 10): leading blanks and one sign are skipped, the longest run
\* of digits is read, whatever follows is ignored; NaN (here -1 for
\* "no digits", kept apart by the nan flag) when no digit is found.
parseInt(s) ==
  LET t == SkipBlanks(s)
      neg == t # <<>> /\ Head(t) = "-"
      u == IF t # <<>> /\ Head(t) \in {"-", "+"} THEN Tail(t) ELSE t
      n == LeadDigits(u)
  IN IF n = 0 THEN [nan |-> TRUE, v |-> 0]
     ELSE [nan |-> FALSE,
           v |-> (IF neg THEN -1 ELSE 1) * DecVal(SubSeq(u, 1, n), 0)]

TIME_UNITS ==
  [s |-> 1000, m |-> 60 * 1000, h |-> 60 * 60 * 1000,
   d |-> 24 * 60 * 60 * 1000, w |-> 7 * 24 * 60 * 60 * 1000]

\* ms(value): value.slice(-1) is the unit, value.slice(0, -1) the number;
\* the result is [ok, v], ok = FALSE standing for the thrown
\* Error("Invalid time format")
ms(value) ==
  LET n == Len(value)
      type == IF n = 0 THEN NoStr ELSE value[n]
      numericValue == parseInt(IF n = 0 THEN <<>> ELSE SubSeq(value, 1, n - 1))
  IN IF numericValue.nan \/ type \notin DOMAIN TIME_UNITS
     THEN [ok |-> FALSE, v |-> 0]
     ELSE [ok |-> TRUE, v |-> numericValue.v * TIME_UNITS[type]]

\* the clock of the model counts hours; jsonwebtoken counts seconds
SecondsPerTick == 60 * 60

(***************************************************************************)
(* jsonwebtoken, as used by hooks/useToken                                 *)
(***************************************************************************)
\* jwt.sign(payload, secretKey, { expiresIn }) at time t: the signed token
\* carries the payload, iat and exp, and is bound to the key.
jwtSign(payload, secretKey, expiresIn, t) ==
  [payload |-> payload, iat |-> t,
   exp |-> t + (expiresIn \div SecondsPerTick), key |-> secretKey]

\* a string that is no JWT at all
Garbage == [raw |-> "garbage"]

\* a signed token; one signed with { notBefore } carries nbf as well
IsJwt(token) == {"payload", "iat", "exp", "key"} \subseteq DOMAIN token

\* a verification that does not look at the signature
jwtVerify_noSignature(token, secretKey, t) ==
  IF ~IsJwt(token) THEN [err |-> "JsonWebTokenError", data |-> Null]
  ELSE IF "nbf" \in DOMAIN token /\ t < token.nbf
  THEN [err |-> "NotBeforeError", data |-> Null]
  ELSE IF t >= token.exp THEN [err |-> "TokenExpiredError", data |-> Null]
  ELSE [err |-> NoStr, data |-> [f \in DOMAIN token \ {"key"} |-> token[f]]]

\* jwt.verify(token, secretKey) at time t: the decoded payload, or the class
\* of the error it throws (structure, then signature, then nbf, then exp)
jwtVerify(token, secretKey, t) ==
  IF ~IsJwt(token) THEN [err |-> "JsonWebTokenError", data |-> Null]
  ELSE IF token.key # secretKey THEN [err |-> "JsonWebTokenError", data |-> Null]
  ELSE IF "nbf" \in DOMAIN token /\ t < token.nbf
  THEN [err |-> "NotBeforeError", data |-> Null]
  ELSE IF t >= token.exp THEN [err |-> "TokenExpiredError", data |-> Null]
  ELSE [err |-> NoStr, data |-> [f \in DOMAIN token \ {"key"} |-> token[f]]]

\* TokenExpiredError and NotBeforeError extend JsonWebTokenError
InstanceOf(err, class) ==
  \/ err = class
  \/ class = "JsonWebTokenError" /\ err \in {"TokenExpiredError", "NotBeforeError"}

(***************************************************************************)
(* hooks/useToken                                                          *)
(***************************************************************************)
\* useToken.generate({ value, secretKey, expires }) at time t
generate(value, secretKey, expires, t) ==
  LET tokenExpires == ms(expires)
      expiresIn == tokenExpires.v \div 1000
  IN [token |-> jwtSign(value, secretKey, expiresIn, t), expiresIn |-> expiresIn]

\* pieces of a header string: a blank, a scheme word, or a token
Sp == [ch |-> " "]
Word(w) == [ch |-> w]
Empty == [ch |-> ""]

\* authHeader.split(" "): the runs between blanks; by construction of the
\* requests a non-empty run is one piece
RECURSIVE Split(_)
Split(s) ==
  IF \A i \in 1..Len(s) : s[i] # Sp
  THEN <<IF s = <<>> THEN Empty ELSE s[1]>>
  ELSE LET i == CHOOSE k \in 1..Len(s) :
                  s[k] = Sp /\ \A j \in 1..(k - 1) : s[j] # Sp
       IN <<IF i = 1 THEN Empty ELSE s[1]>> \o Split(SubSeq(s, i + 1, Len(s)))

\* useToken.extract(req) of hooks/useToken: query, then cookie, then header
extract(r) ==
  LET authQuery == r.query
      authCookie == r.cookie
      authHeader == r.hdr
      splitAuthorize == Split(authHeader)
      allowedAuthorize == {Word("Bearer"), Word("JWT"), Word("Token")}
  IN IF authQuery # Null THEN authQuery
     ELSE IF authCookie # Null THEN authCookie
     ELSE IF /\ authHeader # <<>>
             /\ Len(splitAuthorize) = 2
             /\ splitAuthorize[1] \in allowedAuthorize
          THEN splitAuthorize[2]
     ELSE Null

\* useToken.verify({ token, secretKey }) at time t: never throws; data is
\* null on every failure
verify(token, secretKey, t) ==
  IF token = Null \/ token = Empty
  THEN [data |-> Null, message |-> "unauthorized"]
  ELSE LET r == jwtVerify(token, secretKey, t)
       IN IF r.err = NoStr THEN [data |-> r.data, message |-> "token is verify"]
          ELSE IF InstanceOf(r.err, "TokenExpiredError")
               THEN [data |-> Null, message |-> "jwt expired error"]
          ELSE IF InstanceOf(r.err, "JsonWebTokenError")
               THEN [data |-> Null, message |-> "jwt token error"]
          ELSE IF InstanceOf(r.err, "NotBeforeError")
               THEN [data |-> Null, message |-> "jwt not before error"]
          ELSE [data |-> Null, message |-> "unknown error"]

(***************************************************************************)
(* config/hashing: a one-way hash and its verification                     *)
(***************************************************************************)
hash(plain) == [h |-> plain]

hashVerify(hashed, plain) == hashed = [h |-> plain]

(***************************************************************************)
(* State                                                                   *)
(***************************************************************************)
VARIABLES
  users,      \* table "user": sequence of rows, the id is the position
  sessions,   \* table "userSession": bag of rows [userId, token]
  now,        \* the clock
  pc,         \* pc[p]: where the request handled by process p stands
  req,        \* req[p]: the request
  loc,        \* loc[p]: locals of the handler (gate token, generated token, ...)
  resp,       \* resp[p]: the response sent, Null while none is sent
  reqState,   \* reqState[p]: what the gate attached to the request
  nextCalled, \* nextCalled[p]: the gate called next()
  lastWriter, \* the process whose session write is the latest, 0 if none
  main        \* the Node process: bootstrap, HTTP server, shutdown, exit code

vars ==
  <<users, sessions, now, pc, req, loc, resp, reqState, nextCalled, lastWriter, main>>

db == <<users, sessions>>

(***************************************************************************)
(* db/schema: rows and the queries the services run                        *)
(***************************************************************************)
\* a row of "user" as inserted with the column defaults
UserRow(id, email, password, isActive, isDeleted) ==
  [id |-> id, email |-> email, password |-> password, passwordToken |-> Null,
   isActive |-> isActive, isEmailVerified |-> FALSE, isDeleted |-> isDeleted]

SessionRow(userId, token) == [userId |-> userId, token |-> token]

UserIdx == 1..Len(users)

\* select ... from user where email = e (email is unique: at most one row)
UsersByEmail(e) == {i \in UserIdx : users[i].email = e}

\* the rows of userSession with a given token / user id
SessionsByToken(t) == {s \in BagToSet(sessions) : s.token = t}
SessionsByUserId(u) == {s \in BagToSet(sessions) : s.userId = u}

\* number of rows of userSession of user u
SessionCount(u) ==
  LET S == SessionsByUserId(u)
      RECURSIVE Sum(_)
      Sum(R) == IF R = {} THEN 0
                ELSE LET r == CHOOSE x \in R : TRUE
                     IN CopiesIn(r, sessions) + Sum(R \ {r})
  IN Sum(S)

\* SessionService.getByToken: the row or null
getByToken(token) ==
  IF SessionsByToken(token) = {} THEN Null
  ELSE CHOOSE s \in SessionsByToken(token) : TRUE

\* AuthService.getUserByEmail: findFirst where email = e and isDeleted = false
getUserByEmail(e) ==
  LET I == {i \in UsersByEmail(e) : ~users[i].isDeleted}
  IN IF I = {} THEN Null ELSE users[CHOOSE i \in I : TRUE]

\* update user set <the columns of patch> where email = e
UpdateUsersByEmail(e, patch) ==
  [i \in UserIdx |->
     IF users[i].email = e
     THEN [c \in DOMAIN users[i] |->
             IF c \in DOMAIN patch THEN patch[c] ELSE users[i][c]]
     ELSE users[i]]

(***************************************************************************)
(* core/modules/response: HttpResponse and ErrorResponse                   *)
(***************************************************************************)
\* { ...base, ...over }: the properties of over replace those of base
Spread(base, over) ==
  [f \in DOMAIN base \cup DOMAIN over |->
     IF f \in DOMAIN over THEN over[f] ELSE base[f]]

\* HttpResponse.baseResponse: message and code default, the rest is kept
baseResponse(dataResponse) ==
  Spread([message |-> "data has been received", code |-> 200], dataResponse)

\* HttpResponse.get(dataResponse) / HttpResponse.created(dataResponse)
HttpGet(dataResponse) ==
  baseResponse(Spread([message |-> "data has been received"], dataResponse))

\* a created() that leaves the code to baseResponse's default
HttpCreated_defaultCode(dataResponse) ==
  baseResponse(Spread([message |-> "data has been created"], dataResponse))

HttpCreated(dataResponse) ==
  baseResponse(Spread([code |-> 201, message |-> "data has been created"], dataResponse))

\* status of each ErrorResponse class
StatusCode(kind) ==
  CASE kind = "BadRequest" -> 400
    [] kind = "Unauthorized" -> 401
    [] kind = "Forbidden" -> 403
    [] kind = "NotFound" -> 404
    [] OTHER -> 500

\* a thrown ErrorResponse reaches expressErrorResponse through
\* expressAsyncHandler's catch(next)
ErrorResp(kind, message) ==
  [status |-> StatusCode(kind), kind |-> kind,
   body |-> [code |-> StatusCode(kind), message |-> message]]

\* res.status(status).json(body) of a handler that did not throw
Sent(status, body) == [status |-> status, kind |-> "ok", body |-> body]

\* the 401 answers of the gate
AUTH_ERRORS ==
  [NO_TOKEN |-> [code |-> 401, message |-> "Unauthorized, no token provided"],
   INVALID_TOKEN |-> [code |-> 401, message |-> "Unauthorized, invalid jwt"],
   NO_SESSION |-> [code |-> 401, message |-> "Unauthorized, no valid session"]]

GateReject(which) == [status |-> 401, kind |-> "gate", body |-> AUTH_ERRORS[which]]

\* expressErrorDrizzle on a unique violation of the database
DuplicateEntry ==
  [status |-> 409, kind |-> "drizzle",
   body |-> [code |-> 409, message |-> "Error: Duplicate entry detected"]]

(***************************************************************************)
(* The error boundary: expressErrorDrizzle, expressErrorResponse, and      *)
(* Express's own final handler behind them.  The errors of the model are   *)
(* no ZodError, so expressErrorZod in front passes them on.                *)
(***************************************************************************)
\* an error as the boundary looks at it: instanceof Error, name, code,
\* message, details, instanceof MulterError / ErrorResponse.BaseResponse
ErrorValue(name, code, message) ==
  [isError |-> TRUE, name |-> name, code |-> code, message |-> message,
   details |-> Null, isMulter |-> FALSE, isBaseResponse |-> FALSE, statusCode |-> 0]

\* new ErrorResponse.<kind>(message)
ServiceError(kind, message) ==
  [ErrorValue(kind, NoStr, message) EXCEPT
     !.isBaseResponse = TRUE, !.statusCode = StatusCode(kind)]

\* errors a database statement can fail with: a lost connection (a Node
\* system error) and a statement the server cancels (a Postgres error)
DbErrors ==
  {ErrorValue("Error", "ECONNREFUSED", "connect ECONNREFUSED"),
   ErrorValue("error", "57014", "canceling statement due to statement timeout")}

UNIQUE_VIOLATION == "23505"
FOREIGN_KEY_VIOLATION == "23503"

formatErrorMessage(message) == "Error: " \o message

isPostgresError(error) == error.code # NoStr

isValidationError(error) == error.details # Null

\* the messages of the model that include "validation failed"
ValidationMessages == {"validation failed"}

\* res.status(status).json(body) of a handler of the boundary
Json(status, kind, body) == [status |-> status, kind |-> kind, body |-> body]

\* expressErrorDrizzle: the response, or Null for next(err)
expressErrorDrizzle(err) ==
  IF ~err.isError THEN Null
  ELSE IF isPostgresError(err) /\ err.code = UNIQUE_VIOLATION
  THEN Json(409, "drizzle",
            [code |-> 409, message |-> formatErrorMessage("Duplicate entry detected")])
  ELSE IF isPostgresError(err) /\ err.code = FOREIGN_KEY_VIOLATION
  THEN Json(400, "drizzle",
            [code |-> 400,
             message |-> formatErrorMessage("Invalid reference to a related resource")])
  ELSE IF err.message \in ValidationMessages \/ isValidationError(err)
  THEN Json(400, "drizzle",
            [code |-> 400, message |-> formatErrorMessage("Validation failed"),
             errors |-> IF isValidationError(err) THEN err.details ELSE <<>>])
  ELSE IF err.name = "DrizzleError"
  THEN Json(400, "drizzle", [code |-> 400, message |-> formatErrorMessage(err.message)])
  ELSE Null

\* generateErrorResponse(err, code); the messages of the model are strings
generateErrorResponse(err, code) == [code |-> code, message |-> err.message]

\* expressErrorResponse: the response, or Null for next(err)
expressErrorResponse(err) ==
  IF err.isMulter THEN Json(400, "multer", generateErrorResponse(err, 400))
  ELSE IF err.isBaseResponse
  THEN Json(err.statusCode, err.name, generateErrorResponse(err, err.statusCode))
  ELSE Null

\* no handler of the application is left: Express answers itself, with an
\* HTML page that holds the stack outside production and the status text in
\* production
finalhandler(err, production) ==
  [status |-> 500, kind |-> "finalhandler",
   body |-> [html |-> IF production THEN "Internal Server Error"
                      ELSE "Error: " \o err.message \o " at ..."]]

\* app.use(expressErrorDrizzle); app.use(expressErrorResponse)
ErrorChain(err, production) ==
  IF expressErrorDrizzle(err) # Null THEN expressErrorDrizzle(err)
  ELSE IF expressErrorResponse(err) # Null THEN expressErrorResponse(err)
  ELSE finalhandler(err, production)

(***************************************************************************)
(* Tokens and requests                                                     *)
(***************************************************************************)
\* AuthService.generateAuthToken(user, "user") at time t
generateAuthToken(user, t) ==
  generate([email |-> user.email, userId |-> user.id, role |-> "user"],
           Secret, <<"1", "d">>, t)

\* the token of requestPasswordReset / sendVerificationEmail at time t
ResetTokenFor(email, t) ==
  generate([email |-> email, type |-> "password-reset"], Secret, <<"1", "h">>, t).token

VerificationTokenFor(email, t) ==
  generate([email |-> email, type |-> "email-verification"], Secret, <<"1", "d">>, t).token

\* a well-formed token signed with a key that is not the server's
Forged ==
  jwtSign([email |-> "a", userId |-> 1, role |-> "user"], OtherKey, 24 * SecondsPerTick, 0)

Req(op, email, password, token, hdr, cookie, query) ==
  [op |-> op, email |-> email, password |-> password, token |-> token,
   hdr |-> hdr, cookie |-> cookie, query |-> query]

NoReq == Req("none", NoStr, NoStr, Null, <<>>, Null, Null)

\* "<scheme> <token>"
Authz(scheme, t) == <<Word(scheme), Sp, t>>

\* tokens a client may present at the gate: the tokens of the live sessions,
\* the first access token of every user (live or not), a forged token and a
\* string that is no token
SessionTokens == {s.token : s \in BagToSet(sessions)}

GateTokens ==
  SessionTokens
  \cup {generateAuthToken(users[i], 0).token : i \in UserIdx}
  \cup {Forged, Garbage}

\* tokens a client may send to reset-password: the reset tokens the server
\* can have issued so far, the tokens stored on user rows (they are mailed)
\* and a string that is no token
StoredTokens == {users[i].passwordToken : i \in UserIdx} \ {Null}

BodyTokens ==
  {ResetTokenFor(e, t) : e \in Emails, t \in 0..now} \cup StoredTokens \cup {Garbage}

\* a token in the Authorization header
BearerOnly(T) ==
  {[hdr |-> Authz("Bearer", t), cookie |-> Null, query |-> Null] : t \in T}

\* a token in the Authorization header, or no token
HeaderOnly(T) ==
  {[hdr |-> <<>>, cookie |-> Null, query |-> Null]} \cup BearerOnly(T)

\* where a request carries its token(s): one place, or two places of which
\* one holds the token of a live session
Sources(T) ==
  HeaderOnly(T)
  \cup {[hdr |-> Authz("Basic", t), cookie |-> Null, query |-> Null] : t \in T}
  \cup {[hdr |-> <<Word("Bearer")>>, cookie |-> Null, query |-> Null]}
  \cup {[hdr |-> <<>>, cookie |-> t, query |-> Null] : t \in T}
  \cup {[hdr |-> <<>>, cookie |-> Null, query |-> t] : t \in T}
  \cup {[hdr |-> Authz("Bearer", t), cookie |-> Null, query |-> u] :
          t \in T, u \in SessionTokens}
  \cup {[hdr |-> Authz("Bearer", t), cookie |-> u, query |-> Null] :
          t \in T, u \in SessionTokens}
  \cup {[hdr |-> <<>>, cookie |-> t, query |-> u] : t \in T, u \in SessionTokens}

LocInit ==
  [tok |-> Null, gen |-> Null, found |-> FALSE, uid |-> 0, mail |-> Null,
   secretKey |-> NoStr, verified |-> Null, arg |-> Null, ret |-> Null]

(***************************************************************************)
(* main.ts and db/index.ts: the state of the Node process                  *)
(***************************************************************************)
MAX_RETRIES == 3

\* the process as node starts it: nothing checked, no server, no handlers
MainInit ==
  [pc |-> "bootstrap", retries |-> MAX_RETRIES, attempts |-> 0,
   listening |-> FALSE, handlers |-> FALSE, closing |-> FALSE, timers |-> 0,
   signals |-> <<>>, exitCode |-> NoNum, log |-> <<>>]

\* the process once bootstrap has run through with a database that answers
MainRunning ==
  [MainInit EXCEPT !.pc = "running", !.attempts = 1, !.listening = TRUE,
                   !.handlers = TRUE,
                   !.log = <<"Database connected", "Server running on port">>]

(***************************************************************************)
(* Initial state: the tables as seeded, no request in flight, the server   *)
(* up                                                                      *)
(***************************************************************************)
SeedA(isActive, isDeleted) ==
  [UserRow(1, "a", hash("p1"), isActive, isDeleted) EXCEPT !.isEmailVerified = TRUE]

SeedB == UserRow(2, "b", hash("p1"), TRUE, FALSE)

SeedTables ==
  {<<>>}
  \cup {<<SeedA(act, del)>> : act \in BOOLEAN, del \in BOOLEAN}
  \cup {<<SeedA(act, del), SeedB>> : act \in BOOLEAN, del \in BOOLEAN}

Init ==
  /\ users \in SeedTables
  /\ sessions = EmptyBag
  /\ now = 0
  /\ pc = [p \in Procs |-> "idle"]
  /\ req = [p \in Procs |-> NoReq]
  /\ loc = [p \in Procs |-> LocInit]
  /\ resp = [p \in Procs |-> Null]
  /\ reqState = [p \in Procs |-> Null]
  /\ nextCalled = [p \in Procs |-> FALSE]
  /\ lastWriter = 0
  /\ main = MainRunning

(***************************************************************************)
(* Steps                                                                   *)
(***************************************************************************)
\* the handler of p ends with response r
Respond(p, r) ==
  /\ resp' = [resp EXCEPT ![p] = r]
  /\ pc' = [pc EXCEPT ![p] = "done"]

Goto(p, label) ==
  /\ pc' = [pc EXCEPT ![p] = label]
  /\ UNCHANGED resp

Tick ==
  /\ now < MaxTime
  /\ now' = now + 1
  /\ UNCHANGED <<main, lastWriter, db, pc, req, loc, resp, reqState, nextCalled>>

\* the response has gone out; the process takes the next request
Finish(p) ==
  /\ pc[p] = "done"
  /\ pc' = [pc EXCEPT ![p] = "idle"]
  /\ req' = [req EXCEPT ![p] = NoReq]
  /\ loc' = [loc EXCEPT ![p] = LocInit]
  /\ resp' = [resp EXCEPT ![p] = Null]
  /\ reqState' = [reqState EXCEPT ![p] = Null]
  /\ nextCalled' = [nextCalled EXCEPT ![p] = FALSE]
  /\ lastWriter' = IF lastWriter = p THEN 0 ELSE lastWriter
  /\ UNCHANGED <<main, db, now>>

(***************************************************************************)
(* POST /auth/user-login: AuthService.userLogin, then                      *)
(* SessionService.createOrUpdateSession                                    *)
(***************************************************************************)
\* a login that verifies the password before it looks at the active flag
userLoginCheck_passwordFirst(getUser, password) ==
  IF getUser = {} THEN "not-found"
  ELSE LET user == users[CHOOSE i \in getUser : TRUE]
       IN IF ~hashVerify(user.password, password) THEN "bad-credentials"
          ELSE IF ~user.isActive THEN "inactive"
          ELSE "ok"

\* a login that accepts any password of an active user
userLoginCheck_anyPassword(getUser, password) ==
  IF getUser = {} THEN "not-found"
  ELSE LET user == users[CHOOSE i \in getUser : TRUE]
       IN IF ~user.isActive THEN "inactive" ELSE "ok"

\* the outcome of userLogin's checks on the selected rows
userLoginCheck(getUser, password) ==
  IF getUser = {} THEN "not-found"
  ELSE LET user == users[CHOOSE i \in getUser : TRUE]
       IN IF ~user.isActive THEN "inactive"
          ELSE IF ~hashVerify(user.password, password) THEN "bad-credentials"
          ELSE "ok"

userLogin(p, r) ==
  /\ pc[p] = "idle"
  /\ r.op = "login"
  /\ req' = [req EXCEPT ![p] = r]
  /\ LET getUser == UsersByEmail(r.email)
         outcome == userLoginCheck(getUser, r.password)
     IN CASE outcome = "not-found" ->
               /\ Respond(p, ErrorResp("NotFound", "Account not found or not registered"))
               /\ UNCHANGED loc
          [] outcome = "inactive" ->
               /\ Respond(p, ErrorResp("BadRequest", "Your account is not active"))
               /\ UNCHANGED loc
          [] outcome = "bad-credentials" ->
               /\ Respond(p, ErrorResp("BadRequest", "Invalid username or password"))
               /\ UNCHANGED loc
          [] OTHER ->
               LET user == users[CHOOSE i \in getUser : TRUE]
               IN /\ loc' = [loc EXCEPT ![p].gen = generateAuthToken(user, now).token,
                                        ![p].uid = user.id]
                  /\ Goto(p, "session_find")
  /\ UNCHANGED <<main, lastWriter, db, now, reqState, nextCalled>>

\* createOrUpdateSession: select ... where userId = userId limit 1
sessionFind(p) ==
  /\ pc[p] = "session_find"
  /\ loc' = [loc EXCEPT ![p].found = (SessionsByUserId(loc[p].uid) # {})]
  /\ Goto(p, "session_write")
  /\ UNCHANGED <<main, lastWriter, db, now, req, reqState, nextCalled>>

\* a service that appends a row on every login
createOrUpdateSession_append(found, userId, token) ==
  sessions (+) SetToBag({SessionRow(userId, token)})

\* a createOrUpdateSession that writes nothing
createOrUpdateSession_noWrite(found, userId, token) == sessions

\* createOrUpdateSession(userId, token) once the select has answered `found`:
\* the table after the update or the insert
createOrUpdateSession(found, userId, token) ==
  IF found
  THEN LET S == SessionsByUserId(userId)
           rest == [s \in BagToSet(sessions) \ S |-> sessions[s]]
           RECURSIVE Put(_, _)
           Put(R, b) == IF R = {} THEN b
                        ELSE LET s == CHOOSE x \in R : TRUE
                                 n == CopiesIn(s, sessions)
                                 row == SessionRow(userId, token)
                             IN Put(R \ {s}, b (+) [x \in {row} |-> n])
       IN Put(S, rest)
  ELSE sessions (+) SetToBag({SessionRow(userId, token)})

\* the update or the insert, then res.status(200).json(httpResponse)
sessionWrite(p) ==
  /\ pc[p] = "session_write"
  /\ sessions' = createOrUpdateSession(loc[p].found, loc[p].uid, loc[p].gen)
  /\ Respond(p, Sent(200, HttpGet([data |->
         [token |-> loc[p].gen, user |-> req[p].email, userId |-> loc[p].uid]])))
  /\ lastWriter' = p
  /\ UNCHANGED <<main, users, now, req, loc, reqState, nextCalled>>

\* the update or the insert of createOrUpdateSession is rejected: the route
\* handler throws before res.status(200), the error goes to the boundary
sessionWriteFails(p) ==
  /\ pc[p] = "session_write"
  /\ \E err \in DbErrors, production \in BOOLEAN :
       Respond(p, ErrorChain(err, production))
  /\ UNCHANGED <<main, lastWriter, db, now, req, loc, reqState, nextCalled>>

(***************************************************************************)
(* middleware/authorization                                                *)
(***************************************************************************)
\* a gate that leaves the verification to the session lookup
gateCheck_noVerify(r, t) ==
  IF extract(r) \in {Null, Empty} THEN "NO_TOKEN" ELSE "lookup"

\* the synchronous part of the gate: extract, then verify
gateCheck(r, t) ==
  LET token == extract(r)
      verifiedToken == verify(token, Secret, t)
  IN IF token = Null \/ token = Empty THEN "NO_TOKEN"
     ELSE IF verifiedToken.data = Null THEN "INVALID_TOKEN"
     ELSE "lookup"

\* a request to a gated route arrives: the gate answers 401 or asks the
\* session table
authorization(p, r) ==
  /\ pc[p] = "idle"
  /\ r.op \in {"logout", "register"}
  /\ req' = [req EXCEPT ![p] = r]
  /\ loc' = [loc EXCEPT ![p].tok = extract(r)]
  /\ LET g == gateCheck(r, now)
     IN IF g = "lookup"
        THEN /\ Goto(p, "gate_session")
             /\ reqState' = [reqState EXCEPT
                   ![p] = [pending |-> verify(extract(r), Secret, now).data]]
        ELSE /\ Respond(p, GateReject(g))
             /\ UNCHANGED reqState
  /\ UNCHANGED <<main, lastWriter, db, now, nextCalled>>

\* a direct call of useToken.verify({ token, secretKey })
verifyToken(p, token, secretKey) ==
  /\ pc[p] = "idle"
  /\ req' = [req EXCEPT ![p] = Req("verify", NoStr, NoStr, token, <<>>, Null, Null)]
  /\ loc' = [loc EXCEPT ![p].tok = token,
                        ![p].secretKey = secretKey,
                        ![p].verified = verify(token, secretKey, now)]
  /\ Goto(p, "done")
  /\ UNCHANGED <<main, lastWriter, db, now, reqState, nextCalled>>

\* the token the logout handler reads: req.headers.authorization.split(" ")[1]
logoutToken(r) ==
  LET authHeader == r.hdr
      parts == Split(authHeader)
  IN IF authHeader = <<>> \/ Len(parts) < 2 THEN Null ELSE parts[2]

\* getByToken has answered: 401, or setState and next(), which runs the
\* route handler up to its first database statement
gateSession(p) ==
  /\ pc[p] = "gate_session"
  /\ LET session == getByToken(loc[p].tok)
     IN IF session = Null
        THEN /\ Respond(p, GateReject("NO_SESSION"))
             /\ reqState' = [reqState EXCEPT ![p] = Null]
             /\ UNCHANGED nextCalled
        ELSE /\ reqState' = [reqState EXCEPT
                   ![p] = [tokenData |-> reqState[p].pending, userType |-> "user"]]
             /\ nextCalled' = [nextCalled EXCEPT ![p] = TRUE]
             /\ IF req[p].op = "register" THEN Goto(p, "register_find")
                ELSE IF logoutToken(req[p]) \in {Null, Empty}
                THEN Respond(p, Sent(200, HttpGet([data |-> [message |-> "Logged out successfully"]])))
                ELSE Goto(p, "logout_delete")
  /\ UNCHANGED <<main, lastWriter, db, now, req, loc>>

(***************************************************************************)
(* POST /auth/logout                                                       *)
(***************************************************************************)
\* a delete without its where clause
deleteSession_all(token) == EmptyBag

\* SessionService.deleteSession(token): the table without the rows of token
deleteSession(token) ==
  [s \in BagToSet(sessions) \ SessionsByToken(token) |-> sessions[s]]

logoutDelete(p) ==
  /\ pc[p] = "logout_delete"
  /\ sessions' = deleteSession(logoutToken(req[p]))
  /\ Respond(p, Sent(200, HttpGet([data |-> [message |-> "Logged out successfully"]])))
  /\ UNCHANGED <<main, lastWriter, users, now, req, loc, reqState, nextCalled>>

(***************************************************************************)
(* POST /auth/user-registration: AuthService.createUser                    *)
(***************************************************************************)
\* createUser's check: getUserByEmail(validatedData.email)
registerFind(p) ==
  /\ pc[p] = "register_find"
  /\ IF getUserByEmail(req[p].email) # Null
     THEN Respond(p, ErrorResp("BadRequest", "User already exists"))
     ELSE Goto(p, "register_insert")
  /\ UNCHANGED <<main, lastWriter, db, now, req, loc, reqState, nextCalled>>

\* an insert into a table without the unique constraint on email
insertUser_noUnique(email, password) ==
  [ok |-> TRUE,
   table |-> Append(users, UserRow(Len(users) + 1, email, hash(password), TRUE, FALSE))]

\* insert into user ...: the unique constraint on email decides
insertUser(email, password) ==
  IF UsersByEmail(email) # {} THEN [ok |-> FALSE, table |-> users]
  ELSE [ok |-> TRUE,
        table |-> Append(users, UserRow(Len(users) + 1, email, hash(password), TRUE, FALSE))]

registerInsert(p) ==
  /\ pc[p] = "register_insert"
  /\ LET ins == insertUser(req[p].email, req[p].password)
     IN /\ users' = ins.table
        /\ IF ins.ok
           THEN /\ loc' = [loc EXCEPT ![p].uid = Len(users) + 1]
                /\ Goto(p, "verification_find")
           ELSE /\ Respond(p, DuplicateEntry)
                /\ UNCHANGED loc
  /\ UNCHANGED <<main, lastWriter, sessions, now, req, reqState, nextCalled>>

\* sendVerificationEmail: getUserByEmail, then the token is generated
verificationFind(p) ==
  /\ pc[p] = "verification_find"
  /\ IF getUserByEmail(req[p].email) = Null
     THEN /\ Respond(p, ErrorResp("NotFound", "User not found"))
          /\ UNCHANGED loc
     ELSE /\ loc' = [loc EXCEPT ![p].gen = VerificationTokenFor(req[p].email, now)]
          /\ Goto(p, "verification_update")
  /\ UNCHANGED <<main, lastWriter, db, now, req, reqState, nextCalled>>

\* an update that stores nothing
setPasswordToken_skip(email, token) == users

\* update user set passwordToken = token where email = email
setPasswordToken(email, token) ==
  UpdateUsersByEmail(email, [passwordToken |-> token])

verificationUpdate(p) ==
  /\ pc[p] = "verification_update"
  /\ users' = setPasswordToken(req[p].email, loc[p].gen)
  /\ Goto(p, "verification_mail")
  /\ UNCHANGED <<main, lastWriter, sessions, now, req, loc, reqState, nextCalled>>

\* core/send-mail sendEmail: the transport may fail; the failure is logged
\* and not rethrown
sendEmail(to, subject, token, delivered) ==
  [to |-> to, subject |-> subject, token |-> token, delivered |-> delivered]

verificationMail(p) ==
  /\ pc[p] = "verification_mail"
  /\ \E delivered \in BOOLEAN :
       loc' = [loc EXCEPT
         ![p].mail = sendEmail(req[p].email, "Verify Your Email", loc[p].gen, delivered)]
  /\ Respond(p, Sent(201, HttpCreated(
         [message |-> "User registered successfully. Please check your email to verify your account.",
          userId |-> loc[p].uid])))
  /\ UNCHANGED <<main, lastWriter, db, now, req, reqState, nextCalled>>

(***************************************************************************)
(* POST /auth/forgot-password: AuthService.requestPasswordReset            *)
(***************************************************************************)
requestPasswordReset(p, r) ==
  /\ pc[p] = "idle"
  /\ r.op = "forgot"
  /\ req' = [req EXCEPT ![p] = r]
  /\ IF getUserByEmail(r.email) = Null
     THEN /\ Respond(p, ErrorResp("NotFound", "Account not found"))
          /\ UNCHANGED loc
     ELSE /\ loc' = [loc EXCEPT ![p].gen = ResetTokenFor(getUserByEmail(r.email).email, now)]
          /\ Goto(p, "forgot_update")
  /\ UNCHANGED <<main, lastWriter, db, now, reqState, nextCalled>>

forgotUpdate(p) ==
  /\ pc[p] = "forgot_update"
  /\ users' = setPasswordToken(req[p].email, loc[p].gen)
  /\ Goto(p, "forgot_mail")
  /\ UNCHANGED <<main, lastWriter, sessions, now, req, loc, reqState, nextCalled>>

forgotMail(p) ==
  /\ pc[p] = "forgot_mail"
  /\ \E delivered \in BOOLEAN :
       loc' = [loc EXCEPT
         ![p].mail = sendEmail(req[p].email, "Password Reset Request", loc[p].gen, delivered)]
  /\ Respond(p, Sent(200, HttpGet(
         [data |-> [message |-> "Password reset instructions sent to your email"]])))
  /\ UNCHANGED <<main, lastWriter, db, now, req, reqState, nextCalled>>

(***************************************************************************)
(* POST /auth/reset-password: AuthService.resetPassword                    *)
(***************************************************************************)
\* a validation that accepts every reset token signed for the email, stored
\* or not
validateResetToken_anySigned(email, token, t) ==
  /\ UsersByEmail(email) # {}
  /\ IsJwt(token)
  /\ token.key = Secret
  /\ token.payload = [email |-> email, type |-> "password-reset"]

\* validateResetToken(email, token) at time t: useToken.verify returns an
\* object on success and on failure alike, so `tokenValidation !== null`
\* holds whatever the verification says
validateResetToken(email, token, t) ==
  LET I == UsersByEmail(email)
      user == IF I = {} THEN Null ELSE users[CHOOSE i \in I : TRUE]
  IN IF user = Null \/ user.passwordToken = Null \/ user.passwordToken # token
     THEN FALSE
     ELSE LET tokenValidation == verify(token, Secret, t)
          IN tokenValidation # Null

resetPassword(p, r) ==
  /\ pc[p] = "idle"
  /\ r.op = "reset"
  /\ req' = [req EXCEPT ![p] = r]
  /\ IF ~validateResetToken(r.email, r.token, now)
     THEN Respond(p, ErrorResp("BadRequest", "Invalid or expired token"))
     ELSE Goto(p, "reset_update")
  /\ UNCHANGED <<main, lastWriter, db, now, loc, reqState, nextCalled>>

\* a reset that leaves the stored token in place
resetUpdateRows_keepToken(email, password) ==
  UpdateUsersByEmail(email, [password |-> hash(password), isEmailVerified |-> TRUE])

\* update user set password, isEmailVerified = true, passwordToken = null
\* where email = email
resetUpdateRows(email, password) ==
  UpdateUsersByEmail(email, [password |-> hash(password),
                             isEmailVerified |-> TRUE,
                             passwordToken |-> Null])

resetUpdate(p) ==
  /\ pc[p] = "reset_update"
  /\ users' = resetUpdateRows(req[p].email, req[p].password)
  /\ Goto(p, "reset_mail")
  /\ UNCHANGED <<main, lastWriter, sessions, now, req, loc, reqState, nextCalled>>

\* sendConfirmationEmail, then the 200
resetMail(p) ==
  /\ pc[p] = "reset_mail"
  /\ \E delivered \in BOOLEAN :
       loc' = [loc EXCEPT
         ![p].mail = sendEmail(req[p].email, "Password reset successfully", Null, delivered)]
  /\ Respond(p, Sent(200, HttpGet(
         [data |-> [message |-> "Password reset successfully", email |-> req[p].email]])))
  /\ UNCHANGED <<main, lastWriter, db, now, req, reqState, nextCalled>>

(***************************************************************************)
(* The requests clients send                                               *)
(***************************************************************************)
LoginReqs ==
  {Req("login", e, pw, Null, <<>>, Null, Null) : e \in Emails, pw \in Passwords}

ForgotReqs == {Req("forgot", e, NoStr, Null, <<>>, Null, Null) : e \in Emails}

\* the new password is "p2"; the seeded and the registered one is "p1"
ResetReqs(T) ==
  {Req("reset", e, "p2", t, <<>>, Null, Null) : e \in Emails, t \in T}

LogoutReqs(S) ==
  {Req("logout", NoStr, NoStr, Null, s.hdr, s.cookie, s.query) : s \in S}

RegisterReqs(S) ==
  {Req("register", e, "p1", Null, s.hdr, s.cookie, s.query) : s \in S, e \in Emails}

\* a step of the login, logout and registration handlers
StepSession(p) ==
  \/ sessionFind(p)
  \/ sessionWrite(p)
  \/ gateSession(p)
  \/ logoutDelete(p)
  \/ registerFind(p)
  \/ registerInsert(p)
  \/ verificationFind(p)
  \/ verificationUpdate(p)
  \/ verificationMail(p)
  \/ Finish(p)

\* a step of the password-reset handlers
StepReset(p) ==
  \/ forgotUpdate(p)
  \/ forgotMail(p)
  \/ resetUpdate(p)
  \/ resetMail(p)

(***************************************************************************)
(* Spec: the login, logout and registration routes; requests are handled   *)
(* one at a time, each to completion.  Any seeded table, any password,     *)
(* tokens in any place of the request.                                     *)
(***************************************************************************)
Requests ==
  LoginReqs \cup LogoutReqs(Sources(GateTokens)) \cup RegisterReqs(HeaderOnly(GateTokens))

Next ==
  \/ Tick
  \/ \E r \in Requests : userLogin(1, r)
  \/ \E r \in Requests : authorization(1, r)
  \/ StepSession(1)

Spec == Init /\ [][Next]_vars

(***************************************************************************)
(* SpecReset: the password-reset routes next to login, logout and          *)
(* registration; requests are handled one at a time.  The gated requests   *)
(* carry the token of a live session in the Authorization header.          *)
(***************************************************************************)
ResetRequests ==
  LoginReqs \cup ForgotReqs \cup ResetReqs(BodyTokens)
  \cup RegisterReqs(BearerOnly(SessionTokens))
  \cup LogoutReqs(BearerOnly(SessionTokens))

NextReset ==
  \/ Tick
  \/ \E r \in ResetRequests : userLogin(1, r)
  \/ \E r \in ResetRequests : authorization(1, r)
  \/ \E r \in ResetRequests : requestPasswordReset(1, r)
  \/ \E r \in ResetRequests : resetPassword(1, r)
  \/ sessionFind(1)
  \/ sessionWrite(1)
  \/ gateSession(1)
  \/ logoutDelete(1)
  \/ registerFind(1)
  \/ registerInsert(1)
  \/ verificationFind(1)
  \/ verificationUpdate(1)
  \/ verificationMail(1)
  \/ StepReset(1)
  \/ Finish(1)

SpecReset == Init /\ [][NextReset]_vars

(***************************************************************************)
(* SpecFault: Spec, and the session write of a login may fail.             *)
(***************************************************************************)
NextFault ==
  \/ Next
  \/ sessionWriteFails(1)

SpecFault == Init /\ [][NextFault]_vars

(***************************************************************************)
(* SpecToken: useToken.verify on its own and behind the gate, for tokens   *)
(* signed with the server's key or another one, with either expiry, with   *)
(* or without a not-before time, and for values that are no token.         *)
(***************************************************************************)
Keys == {Secret, OtherKey}

Payloads ==
  {[email |-> "a", userId |-> 1, role |-> "user"],
   [email |-> "a", type |-> "password-reset"]}

\* the tokens that can exist by now, signed at some time up to now
SignedTokens ==
  {generate(pl, k, e, i).token :
     pl \in Payloads, k \in Keys, e \in {<<"1", "h">>, <<"1", "d">>}, i \in 0..now}

\* jwt.sign(payload, key, { expiresIn, notBefore })
NotBeforeTokens ==
  {Spread(tok, [nbf |-> n]) : tok \in SignedTokens, n \in 1..(MaxTime + 1)}

VerifyTokens == SignedTokens \cup NotBeforeTokens \cup {Garbage, Null, Empty}

TokenRequests == LogoutReqs(BearerOnly(SignedTokens \cup NotBeforeTokens \cup {Garbage}))

NextToken ==
  \/ Tick
  \/ \E token \in VerifyTokens, secretKey \in Keys : verifyToken(1, token, secretKey)
  \/ \E r \in TokenRequests : authorization(1, r)
  \/ gateSession(1)
  \/ Finish(1)

SpecToken == Init /\ [][NextToken]_vars

(***************************************************************************)
(* SpecConc: two requests to the login, logout and registration routes in  *)
(* flight, interleaved at their awaits.  The table is seeded with one      *)
(* active user; the clients send well-formed requests, the right password  *)
(* and the tokens they were given.  The processes are interchangeable:     *)
(* process 2 takes a request only while process 1 is busy.                 *)
(***************************************************************************)
InitConc ==
  /\ Init
  /\ users = <<SeedA(TRUE, FALSE)>>

ConcRequests ==
  {Req("login", e, "p1", Null, <<>>, Null, Null) : e \in Emails}
  \cup LogoutReqs(BearerOnly(SessionTokens))
  \cup RegisterReqs(BearerOnly(SessionTokens))

ArriveConc(p) ==
  /\ p = 2 => pc[1] # "idle"
  /\ \/ \E r \in ConcRequests : userLogin(p, r)
     \/ \E r \in ConcRequests : authorization(p, r)

NextConc ==
  \/ Tick
  \/ \E p \in Procs : ArriveConc(p)
  \/ \E p \in Procs : StepSession(p)

SpecConc == InitConc /\ [][NextConc]_vars

(***************************************************************************)
(* SpecMs: ms called on its own, with any string of up to MaxStrLen        *)
(* characters: digits, unit letters, another letter and a sign.            *)
(***************************************************************************)
MsChars == {"0", "1", "2", "s", "h", "x", "-"}

MsInputs == UNION {[1..n -> MsChars] : n \in 0..MaxStrLen}

\* a direct call of ms(value); loc.ret is what it returns or that it threw
msCall(p, value) ==
  /\ pc[p] = "idle"
  /\ req' = [req EXCEPT ![p] = Req("ms", NoStr, NoStr, Null, <<>>, Null, Null)]
  /\ loc' = [loc EXCEPT ![p].arg = value, ![p].ret = ms(value)]
  /\ Goto(p, "done")
  /\ UNCHANGED <<main, lastWriter, db, now, reqState, nextCalled>>

InitMs ==
  /\ Init
  /\ users = <<>>

NextMs ==
  \/ \E value \in MsInputs : msCall(1, value)
  \/ Finish(1)

SpecMs == InitMs /\ [][NextMs]_vars

(***************************************************************************)
(* hooks/useTable: findPage over queryMany                                 *)
(***************************************************************************)
DEFAULT_PAGE_SIZE == 20

\* a sort order that is left out (undefined)
NoOrder == "none"

\* a || b for numbers: undefined and 0 give b
OrElse(a, b) == IF a = NoNum \/ a = 0 THEN b ELSE a

\* buildWhereClause: and(eq(column, value), ...) over the criteria given
buildWhereClause(criteria, row) ==
  criteria = Null \/ \A k \in DOMAIN criteria : row[k] = criteria[k]

\* buildOrderByClause on the id column: the rows of S by ascending id
RECURSIVE SortById(_)
SortById(S) ==
  IF S = {} THEN <<>>
  ELSE LET m == CHOOSE x \in S : \A y \in S : x.id <= y.id
       IN <<m>> \o SortById(S \ {m})

Reverse(q) == [i \in 1..Len(q) |-> q[Len(q) + 1 - i]]

\* queryBuilder.findMany({ where, orderBy, limit, offset }): the matching rows
\* in the order asked for (the stored order when none is), from offset on, at
\* most limit of them
queryMany(table, config) ==
  LET matching == SelectSeq(table, LAMBDA row : buildWhereClause(config.criteria, row))
      asc == SortById({matching[i] : i \in 1..Len(matching)})
      ordered == IF config.order = NoOrder THEN matching
                 ELSE IF config.order = "asc" THEN asc ELSE Reverse(asc)
      offset == IF config.offset = NoNum THEN 0 ELSE config.offset
      last == IF config.limit = NoNum \/ offset + config.limit > Len(ordered)
              THEN Len(ordered) ELSE offset + config.limit
  IN IF offset >= Len(ordered) THEN <<>> ELSE SubSeq(ordered, offset + 1, last)

\* a findPage that asks for pageSize rows only
findPage_noLookahead(table, config) ==
  LET pageSize == OrElse(IF config.paging = Null THEN NoNum ELSE config.paging.pageSize,
                         DEFAULT_PAGE_SIZE)
      currentPage == OrElse(IF config.paging = Null THEN NoNum ELSE config.paging.page, 1) - 1
      rawResult == queryMany(table, Spread(config, [limit |-> pageSize,
                                                   offset |-> currentPage * pageSize]))
  IN [result |-> rawResult, hasMore |-> Len(rawResult) > pageSize]

findPage(table, config) ==
  LET pageSize == OrElse(IF config.paging = Null THEN NoNum ELSE config.paging.pageSize,
                         DEFAULT_PAGE_SIZE)
      currentPage == OrElse(IF config.paging = Null THEN NoNum ELSE config.paging.page, 1) - 1
      limit == pageSize + 1
      offset == currentPage * pageSize
      rawResult == queryMany(table, Spread(config, [limit |-> limit, offset |-> offset]))
      hasMore == Len(rawResult) > pageSize
  IN [result |-> IF hasMore THEN SubSeq(rawResult, 1, Len(rawResult) - 1) ELSE rawResult,
      hasMore |-> hasMore]

(***************************************************************************)
(* SpecPage: findPage called on a table of up to MaxRows rows, two thirds  *)
(* of them active, stored by descending id; with or without criteria, an   *)
(* order and a paging, page and page size given, 0 or left out.            *)
(***************************************************************************)
PageTable(n) == [i \in 1..n |-> [id |-> n + 1 - i, isActive |-> (i % 3 # 0)]]

Pagings ==
  {Null} \cup {[page |-> pg, pageSize |-> sz] :
                 pg \in {NoNum} \cup 0..MaxPage, sz \in {NoNum} \cup 0..MaxPageSize}

Configs ==
  {[criteria |-> c, order |-> o, paging |-> pg, limit |-> NoNum, offset |-> NoNum] :
     c \in {Null, [isActive |-> TRUE], [isActive |-> FALSE]},
     o \in {NoOrder, "asc", "desc"},
     pg \in Pagings}

\* a direct call of findPage(config) on a repository over table
findPageCall(p, table, config) ==
  /\ pc[p] = "idle"
  /\ req' = [req EXCEPT ![p] = Req("findPage", NoStr, NoStr, Null, <<>>, Null, Null)]
  /\ loc' = [loc EXCEPT ![p].arg = [table |-> table, config |-> config],
                        ![p].ret = findPage(table, config)]
  /\ Goto(p, "done")
  /\ UNCHANGED <<main, lastWriter, db, now, reqState, nextCalled>>

NextPage ==
  \/ \E n \in 0..MaxRows, config \in Configs : findPageCall(1, PageTable(n), config)
  \/ Finish(1)

SpecPage == InitMs /\ [][NextPage]_vars

(***************************************************************************)
(* main.ts: bootstrap, checkDbConnection, setupGracefulShutdown, shutdown  *)
(***************************************************************************)
Alive == main.exitCode = NoNum

Log(m, line) == [m EXCEPT !.log = Append(@, line)]

\* process.exit(code)
processExit(m, code) ==
  [m EXCEPT !.pc = "exited", !.exitCode = code, !.listening = FALSE]

\* bootstrap up to its await: new App(), app.create(), http.createServer,
\* then checkDbConnection() with retries = MAX_RETRIES
bootstrapCreate ==
  /\ Alive
  /\ main.pc = "bootstrap"
  /\ main' = [main EXCEPT !.pc = "db_execute", !.retries = MAX_RETRIES]
  /\ UNCHANGED <<lastWriter, db, now, pc, req, loc, resp, reqState, nextCalled>>

\* a check that goes on retrying while retries >= 0
checkDbConnection_oneMore(m, connected) ==
  LET n == [m EXCEPT !.attempts = @ + 1]
  IN IF connected
     THEN Log([n EXCEPT !.pc = "db_resolved"], "Database connected")
     ELSE IF m.retries >= 0
     THEN Log([n EXCEPT !.pc = "db_delay"], "Database Connection failed, retrying...")
     ELSE Log([n EXCEPT !.pc = "db_rejected"], "Unable to connect to the database:")

\* checkDbConnection(retries) once `await db.execute(select 1)` has settled:
\* resolved, or the wait before checkDbConnection(retries - 1), or the
\* error thrown on
checkDbConnection(m, connected) ==
  LET n == [m EXCEPT !.attempts = @ + 1]
  IN IF connected
     THEN Log([n EXCEPT !.pc = "db_resolved"], "Database connected")
     ELSE IF m.retries > 0
     THEN Log([n EXCEPT !.pc = "db_delay"], "Database Connection failed, retrying...")
     ELSE Log([n EXCEPT !.pc = "db_rejected"], "Unable to connect to the database:")

dbExecute ==
  /\ Alive
  /\ main.pc = "db_execute"
  /\ \E connected \in BOOLEAN : main' = checkDbConnection(main, connected)
  /\ UNCHANGED <<lastWriter, db, now, pc, req, loc, resp, reqState, nextCalled>>

\* setTimeout(resolve, RETRY_DELAY) has fired: checkDbConnection(retries - 1)
dbRetry ==
  /\ Alive
  /\ main.pc = "db_delay"
  /\ main' = [main EXCEPT !.pc = "db_execute", !.retries = @ - 1]
  /\ UNCHANGED <<lastWriter, db, now, pc, req, loc, resp, reqState, nextCalled>>

\* a bootstrap that starts the server whatever checkDbConnection says
bootstrapResume_listenAnyway(m) ==
  [Log(m, "Server running on port") EXCEPT
     !.pc = "running", !.listening = TRUE, !.handlers = TRUE]

\* bootstrap after `await checkDbConnection()`: server.listen and
\* setupGracefulShutdown, or the catch block
bootstrapResume(m) ==
  IF m.pc = "db_resolved"
  THEN [Log(m, "Server running on port") EXCEPT
          !.pc = "running", !.listening = TRUE, !.handlers = TRUE]
  ELSE processExit(Log(m, "Bootstrap error:"), 1)

bootstrapListen ==
  /\ Alive
  /\ main.pc \in {"db_resolved", "db_rejected"}
  /\ main' = bootstrapResume(main)
  /\ UNCHANGED <<lastWriter, db, now, pc, req, loc, resp, reqState, nextCalled>>

\* a shutdown without the forced-shutdown timer
shutdown_noTimer(m) ==
  [m EXCEPT !.closing = TRUE, !.listening = FALSE]

\* shutdown(server): server.close(callback) stops the server from accepting
\* connections and calls back once the open ones have ended; setTimeout
\* arms one more forced-shutdown timer
shutdown(m) ==
  [m EXCEPT !.closing = TRUE, !.listening = FALSE, !.timers = @ + 1]

Signals == {"SIGTERM", "SIGINT", "uncaughtException"}

\* a handler installed by setupGracefulShutdown runs
signalHandler(kind) ==
  /\ Alive
  /\ main.handlers
  /\ Len(main.signals) < MaxSignals
  /\ main' = shutdown(Log([main EXCEPT !.signals = Append(@, kind)], kind))
  /\ UNCHANGED <<lastWriter, db, now, pc, req, loc, resp, reqState, nextCalled>>

\* the server has closed, no connection is open: the callback of the first
\* server.close runs
serverClosed ==
  /\ Alive
  /\ main.closing
  /\ \A p \in Procs : pc[p] = "idle"
  /\ main' = processExit(Log(main, "HTTP server closed"), 0)
  /\ UNCHANGED <<lastWriter, db, now, pc, req, loc, resp, reqState, nextCalled>>

\* the first forced-shutdown timer fires
forcedShutdown ==
  /\ Alive
  /\ main.timers > 0
  /\ main' = processExit(Log(main, "Forced shutdown after timeout"), 1)
  /\ UNCHANGED <<lastWriter, db, now, pc, req, loc, resp, reqState, nextCalled>>

(***************************************************************************)
(* SpecBoot: the process from its start to its exit.  The database answers *)
(* the connection check or not, attempt by attempt; while the server       *)
(* listens it takes logins, each an open connection until its response has *)
(* gone out; signals and uncaught exceptions come at any time once the     *)
(* handlers are installed.  SpecBootLive adds what the event loop          *)
(* guarantees: a promise that can settle settles, a timer that is armed    *)
(* fires, bootstrap runs on.  Nothing says that a request in flight ends.  *)
(***************************************************************************)
InitBoot ==
  /\ users = <<SeedA(TRUE, FALSE)>>
  /\ sessions = EmptyBag
  /\ now = 0
  /\ pc = [p \in Procs |-> "idle"]
  /\ req = [p \in Procs |-> NoReq]
  /\ loc = [p \in Procs |-> LocInit]
  /\ resp = [p \in Procs |-> Null]
  /\ reqState = [p \in Procs |-> Null]
  /\ nextCalled = [p \in Procs |-> FALSE]
  /\ lastWriter = 0
  /\ main = MainInit

BootRequests == {Req("login", "a", pw, Null, <<>>, Null, Null) : pw \in Passwords}

\* the server accepts a connection
Accept(p) ==
  /\ Alive
  /\ main.listening
  /\ \E r \in BootRequests : userLogin(p, r)

\* a request in flight goes on while the process lives
Handle(p) ==
  /\ Alive
  /\ \/ sessionFind(p)
     \/ sessionWrite(p)
     \/ Finish(p)

NextBoot ==
  \/ bootstrapCreate
  \/ dbExecute
  \/ dbRetry
  \/ bootstrapListen
  \/ \E kind \in Signals : signalHandler(kind)
  \/ serverClosed
  \/ forcedShutdown
  \/ \E p \in Procs : Accept(p)
  \/ \E p \in Procs : Handle(p)

SpecBoot == InitBoot /\ [][NextBoot]_vars

SpecBootLive ==
  /\ SpecBoot
  /\ WF_vars(bootstrapCreate)
  /\ WF_vars(dbExecute)
  /\ WF_vars(dbRetry)
  /\ WF_vars(bootstrapListen)
  /\ WF_vars(forcedShutdown)

(***************************************************************************)
(* Properties                                                              *)
(***************************************************************************)
Gated(p) == req[p].op \in {"logout", "register"}

Done(p, op) == pc[p] = "done" /\ req[p].op = op

\* C1: when every request runs to completion before the next one starts, the
\* session table holds at most one row per user id, after any sequence of
\* logins and logouts of any users.
C1_OneSessionPerUser ==
  /\ \A i \in UserIdx : SessionCount(users[i].id) <= 1
  /\ \A s \in BagToSet(sessions) : s.userId \in UserIdx

\* a user with a session logs in again: the row is overwritten with a new token
C1_Witness ==
  /\ Done(1, "login")
  /\ resp[1].status = 200
  /\ loc[1].found
  /\ loc[1].gen.iat > 0
  /\ sessions = SetToBag({SessionRow(loc[1].uid, loc[1].gen)})

\* C2: when two logins of one user interleave the find and the write of
\* createOrUpdateSession, then once both have completed the table holds
\* exactly one row for that user, with the token of the later write.
C2_LastWriteWins ==
  \A p, q \in Procs :
    ( /\ p # q
      /\ Done(p, "login") /\ resp[p].status = 200
      /\ Done(q, "login") /\ resp[q].status = 200
      /\ loc[p].uid = loc[q].uid
      /\ lastWriter = p )
    => /\ SessionCount(loc[p].uid) = 1
       /\ SessionsByUserId(loc[p].uid) = {SessionRow(loc[p].uid, loc[p].gen)}

\* C3: the gate answers 401 when no token is extracted, 401 when the token
\* fails verification, 401 when no session row holds the token, and only
\* otherwise attaches the verified claims and calls next; it never both
\* sends a response and calls next.
C3_GateStep ==
  \A p \in Procs :
    /\ (pc[p] = "idle" /\ pc'[p] # "idle" /\ Gated(p)') =>
         LET token == extract(req'[p])
             missing == token \in {Null, Empty}
             valid == verify(token, Secret, now).data # Null
         IN /\ ~nextCalled'[p]
            /\ missing => resp'[p] = GateReject("NO_TOKEN")
            /\ (~missing /\ ~valid) => resp'[p] = GateReject("INVALID_TOKEN")
            /\ (~missing /\ valid) => (resp'[p] = Null /\ pc'[p] = "gate_session")
    /\ (pc[p] = "gate_session" /\ pc'[p] # "gate_session") =>
         IF SessionsByToken(loc[p].tok) = {}
         THEN /\ resp'[p] = GateReject("NO_SESSION")
              /\ pc'[p] = "done"
              /\ ~nextCalled'[p]
              /\ reqState'[p] = Null
         ELSE /\ nextCalled'[p]
              /\ reqState'[p].tokenData.payload = loc[p].tok.payload
              /\ (resp'[p] # Null => resp'[p].kind # "gate")
    /\ (nextCalled'[p] /\ resp'[p] # Null) => resp'[p].kind # "gate"
    /\ (resp'[p] # Null /\ resp'[p].kind = "gate") => resp'[p].status = 401

C3_Gate == [][C3_GateStep]_vars

\* the gate has let a request through with the claims of its token attached
C3_Witness ==
  /\ nextCalled[1]
  /\ pc[1] = "register_find"
  /\ reqState[1].tokenData.payload.userId = 1
  /\ SessionsByToken(loc[1].tok) # {}

\* C4: of the tokens a request carries, the gate takes the Bearer-style
\* token of the Authorization header if there is one, otherwise the cookie
\* token, otherwise the query-parameter token.
HeaderFirst(r) ==
  LET parts == Split(r.hdr)
  IN IF r.hdr # <<>> /\ Len(parts) = 2
        /\ parts[1] \in {Word("Bearer"), Word("JWT"), Word("Token")}
     THEN parts[2]
     ELSE IF r.cookie # Null THEN r.cookie
     ELSE r.query

C4_HeaderFirst ==
  \A p \in Procs : (pc[p] # "idle" /\ Gated(p)) => loc[p].tok = HeaderFirst(req[p])

\* C5: after POST /logout has answered 200 to a request whose token was
\* accepted by the gate, wherever the token came from, no session row holds
\* that token.
C5_LogoutEndsSession ==
  \A p \in Procs :
    (Done(p, "logout") /\ resp[p].status = 200) => getByToken(loc[p].tok) = Null

\* C6: a registration with a valid payload and a fresh email, sent by a
\* client that has no token and no session, is answered 201 and creates the
\* user row.
Anonymous(r) == r.hdr = <<>> /\ r.cookie = Null /\ r.query = Null

C6_RegisterWithoutSession ==
  \A p \in Procs :
    (Done(p, "register") /\ Anonymous(req[p]))
    => \/ /\ resp[p].status = 201
          /\ \E i \in UserIdx : users[i].email = req[p].email /\ users[i].id = loc[p].uid
       \/ /\ resp[p].status # 201
          /\ UsersByEmail(req[p].email) # {}

\* C7: createUser with an email that some user row already holds fails with
\* bad-request and creates no second row with that email, whatever the flags
\* of the existing row.  (Once the gate has called next, a registration
\* fails only because the email is taken.)
C7_DuplicateEmailIsBadRequest ==
  /\ \A e \in Emails : Cardinality(UsersByEmail(e)) <= 1
  /\ \A p \in Procs :
       (Done(p, "register") /\ nextCalled[p] /\ resp[p].status # 201)
       => resp[p].kind = "BadRequest"

\* C8: resetPassword goes on to the update only if the provided token equals
\* the token stored for the email and passes signature and expiry
\* verification; otherwise it fails with invalid-or-expired and leaves the
\* user rows unchanged.
InvalidOrExpired(r) ==
  r # Null /\ r.kind = "BadRequest" /\ r.body.message = "Invalid or expired token"

C8_ResetStep ==
  \A p \in Procs :
    (pc[p] = "idle" /\ req'[p].op = "reset") =>
      LET r == req'[p]
          matches == \E i \in UsersByEmail(r.email) : users[i].passwordToken = r.token
          verified == verify(r.token, Secret, now).data # Null
      IN IF matches /\ verified
         THEN pc'[p] = "reset_update" /\ resp'[p] = Null
         ELSE InvalidOrExpired(resp'[p]) /\ pc'[p] = "done" /\ users' = users

C8_ResetNeedsValidToken == [][C8_ResetStep]_vars

\* C9: once resetPassword has succeeded for an email, the stored reset token
\* of that user is null and the email-verified flag is true; while the
\* stored token is null every resetPassword for that email fails with
\* invalid-or-expired; and only the issue of a new token (forgot-password,
\* or the verification token of a registration) stores a token again.
C9_ResetStep ==
  \A p \in Procs :
    /\ (pc'[p] = "done" /\ req'[p].op = "reset" /\ resp'[p].status = 200) =>
         /\ \E i \in 1..Len(users') : users'[i].email = req'[p].email
         /\ \A i \in 1..Len(users') :
              users'[i].email = req'[p].email =>
                (users'[i].passwordToken = Null /\ users'[i].isEmailVerified)
    /\ ( /\ pc[p] = "idle" /\ req'[p].op = "reset"
         /\ \A i \in UsersByEmail(req'[p].email) : users[i].passwordToken = Null )
       => (InvalidOrExpired(resp'[p]) /\ pc'[p] = "done" /\ users' = users)
    /\ \A i \in UserIdx :
         (users[i].passwordToken = Null /\ users'[i].passwordToken # Null)
         => \E q \in Procs : pc[q] \in {"forgot_update", "verification_update"}

C9_TokenSpentByReset == [][C9_ResetStep]_vars

\* a reset token is presented again after the reset it paid for
C9_Witness ==
  /\ Done(1, "reset")
  /\ InvalidOrExpired(resp[1])
  /\ req[1].token \in {ResetTokenFor(req[1].email, t) : t \in 0..now}
  /\ \E i \in UsersByEmail(req[1].email) :
       /\ users[i].passwordToken = Null
       /\ users[i].isEmailVerified
       /\ users[i].password = hash("p2")

\* C10 as stated: a login to an account that is not active fails forbidden.
C10_InactiveIsForbidden ==
  \A p \in Procs :
    (Done(p, "login") /\ \E i \in UsersByEmail(req[p].email) : ~users[i].isActive)
    => resp[p].kind = "Forbidden"

\* C10, amended: userLogin applies its checks in a fixed order and stops at
\* the first that fails: no user row fails not-found; a user that is not
\* active fails bad-request "Your account is not active", even when the
\* password is wrong too; a password mismatch fails bad-request "Invalid
\* username or password"; a token is issued only when all three pass.
Failed(r, kind, message) ==
  r # Null /\ r.kind = kind /\ r.body.message = message

C10_LoginOrder ==
  \A p \in Procs :
    (pc[p] # "idle" /\ req[p].op = "login") =>
      LET I == UsersByEmail(req[p].email)
          user == users[CHOOSE i \in I : TRUE]
      IN IF I = {}
         THEN /\ Failed(resp[p], "NotFound", "Account not found or not registered")
              /\ loc[p].gen = Null
         ELSE IF ~user.isActive
         THEN /\ Failed(resp[p], "BadRequest", "Your account is not active")
              /\ loc[p].gen = Null
         ELSE IF ~hashVerify(user.password, req[p].password)
         THEN /\ Failed(resp[p], "BadRequest", "Invalid username or password")
              /\ loc[p].gen = Null
         ELSE /\ loc[p].gen = generateAuthToken(user, loc[p].gen.iat).token
              /\ loc[p].uid = user.id
              /\ resp[p] # Null => resp[p].kind = "ok"

\* a login with a wrong password to an account that is not active
C10_Witness ==
  /\ Done(1, "login")
  /\ Failed(resp[1], "BadRequest", "Your account is not active")
  /\ \E i \in UsersByEmail(req[1].email) :
       ~users[i].isActive /\ ~hashVerify(users[i].password, req[1].password)

\* C11: a login with a wrong password for an existing active user answers
\* bad-request "Invalid username or password" (bad-credentials), issues no
\* token and ends the handler without a statement on the session table: no
\* row is created and no stored token is overwritten.
WrongPasswordLogin(r) ==
  /\ r.op = "login"
  /\ \E i \in UsersByEmail(r.email) :
       users[i].isActive /\ ~hashVerify(users[i].password, r.password)

C11_Step ==
  \A p \in Procs :
    /\ (pc[p] = "idle" /\ pc'[p] # "idle" /\ WrongPasswordLogin(req'[p])) =>
         /\ pc'[p] = "done"
         /\ Failed(resp'[p], "BadRequest", "Invalid username or password")
         /\ loc'[p].gen = Null
         /\ sessions' = sessions
    /\ (pc[p] = "done" /\ pc'[p] # "done" /\ WrongPasswordLogin(req[p])) =>
         (pc'[p] = "idle" /\ sessions' = sessions)

C11_WrongPasswordChangesNothing == [][C11_Step]_vars

\* a wrong password for an active user who holds a session
C11_Witness ==
  /\ Done(1, "login")
  /\ WrongPasswordLogin(req[1])
  /\ Failed(resp[1], "BadRequest", "Invalid username or password")
  /\ \E i \in UsersByEmail(req[1].email) : SessionsByUserId(users[i].id) # {}

\* C12: whenever the login endpoint answers 200 with token t for user u, the
\* session row (u, t) has been written by that handler: by an insert that
\* adds the row when u had no row, by an update that overwrites the token of
\* u's row otherwise, the rows of other users untouched; a login whose
\* session write fails answers no 200 and leaves the table as it was.
C12_Step ==
  \A p \in Procs :
    (pc[p] = "session_write" /\ pc'[p] = "done") =>
      IF resp'[p].status = 200
      THEN LET t == resp'[p].body.data.token
               u == resp'[p].body.data.userId
               row == SessionRow(u, t)
           IN /\ \E i \in UsersByEmail(req[p].email) : users[i].id = u
              /\ BagIn(row, sessions')
              /\ \A s \in BagToSet(sessions') : s.userId = u => s = row
              /\ \A s \in BagToSet(sessions) :
                   s.userId # u => CopiesIn(s, sessions') = CopiesIn(s, sessions)
              /\ IF SessionsByUserId(u) = {}
                 THEN sessions' = sessions (+) SetToBag({row})
                 ELSE BagCardinality(sessions') = BagCardinality(sessions)
      ELSE /\ sessions' = sessions
           /\ resp'[p].status >= 400

C13_Step ==
  \A p \in Procs :
    (pc[p] = "logout_delete" /\ pc'[p] = "done") =>
      LET t == logoutToken(req[p])
      IN /\ resp'[p].kind = "ok" /\ resp'[p].status = 200
         /\ \A s \in BagToSet(sessions) :
              s.token # t => CopiesIn(s, sessions') = CopiesIn(s, sessions)
         /\ \A s \in BagToSet(sessions') : s.token # t /\ BagIn(s, sessions)
         /\ SessionsByToken(t) = {} => sessions' = sessions

C13_LogoutOfDeletedSessionIsNoOp == [][C13_Step]_vars

\* two logouts with the same token have both passed the gate and both
\* answered 200, while another session row is still there
C13_Witness ==
  /\ Done(1, "logout") /\ Done(2, "logout")
  /\ logoutToken(req[1]) = logoutToken(req[2])
  /\ nextCalled[1] /\ nextCalled[2]
  /\ resp[1].status = 200 /\ resp[2].status = 200
  /\ sessions # EmptyBag

\* C14: when the verification email of a registration cannot be delivered,
\* createUser does not report success: the request is not answered 201, it
\* is answered with an internal error.
C14_MailFailureSurfaces ==
  \A p \in Procs :
    (Done(p, "register") /\ loc[p].mail # Null /\ ~loc[p].mail.delivered) =>
      (resp[p].status # 201 /\ resp[p].kind = "InternalServer")

\* C15: a token signed with one key never verifies under a different key:
\* whatever its payload, its expiry and the time, verify returns no decoded
\* claim, and the gate answers such a token with 401 "invalid jwt".
C15_WrongKeyNeverVerifies ==
  \A p \in Procs :
    /\ (Done(p, "verify") /\ IsJwt(loc[p].tok) /\ loc[p].tok.key # loc[p].secretKey)
         => (loc[p].verified.data = Null /\ loc[p].verified.message # "token is verify")
    /\ (Done(p, "logout") /\ IsJwt(loc[p].tok) /\ loc[p].tok.key # Secret)
         => (resp[p] = GateReject("INVALID_TOKEN") /\ ~nextCalled[p])

\* a token that is in its validity period, verified with the wrong key
C15_Witness ==
  /\ Done(1, "verify")
  /\ IsJwt(loc[1].tok)
  /\ loc[1].tok.key = OtherKey /\ loc[1].secretKey = Secret
  /\ "nbf" \notin DOMAIN loc[1].tok
  /\ now < loc[1].tok.exp
  /\ loc[1].verified = [data |-> Null, message |-> "jwt token error"]

\* C16: verify returns the decoded claim or a failure without data, every
\* failure under one of the classes expired, malformed, not-yet-valid and
\* unknown; a rightly signed token past its expiry is reported as expired,
\* and a rightly signed token used before its not-before time is reported
\* as not-yet-valid.
RightlySigned(p) == IsJwt(loc[p].tok) /\ loc[p].tok.key = loc[p].secretKey

BeforeNotBefore(p) == "nbf" \in DOMAIN loc[p].tok /\ now < loc[p].tok.nbf

C16_TypedFailures ==
  \A p \in Procs :
    Done(p, "verify") =>
      LET v == loc[p].verified
      IN /\ DOMAIN v = {"data", "message"}
         /\ v.data = Null <=> v.message # "token is verify"
         /\ v.message \in {"token is verify", "unauthorized", "jwt expired error",
                           "jwt token error", "jwt not before error", "unknown error"}
         /\ (RightlySigned(p) /\ ~BeforeNotBefore(p) /\ now >= loc[p].tok.exp)
              => v.message = "jwt expired error"
         /\ (RightlySigned(p) /\ BeforeNotBefore(p))
              => v.message = "jwt not before error"

\* C17: requestPasswordReset for an email without a non-deleted user fails
\* with not-found, changes no user row and sends no email; for an existing
\* user the email is sent only after the token is stored on the user row,
\* and the token in the email is the stored one.
C17_Step ==
  \A p \in Procs :
    /\ ( /\ pc[p] = "idle" /\ pc'[p] # "idle" /\ req'[p].op = "forgot"
         /\ getUserByEmail(req'[p].email) = Null )
       => /\ pc'[p] = "done"
          /\ Failed(resp'[p], "NotFound", "Account not found")
          /\ users' = users
          /\ loc'[p].mail = Null
    /\ (Done(p, "forgot") /\ resp[p].kind = "NotFound" /\ pc'[p] # "done")
       => (pc'[p] = "idle" /\ users' = users)
    /\ (req'[p].op = "forgot" /\ pc'[p] \in {"forgot_update", "forgot_mail"})
       => loc'[p].mail = Null
    /\ (pc[p] = "forgot_mail" /\ pc'[p] = "done")
       => /\ loc'[p].mail # Null
          /\ loc'[p].mail.to = req[p].email
          /\ loc'[p].mail.token = loc[p].gen
          /\ UsersByEmail(req[p].email) # {}
          /\ \A i \in UsersByEmail(req[p].email) :
               users[i].passwordToken = loc'[p].mail.token
          /\ users' = users

C17_ResetTokenStoredThenMailed == [][C17_Step]_vars

\* a second reset request: the token of the first one is replaced by the
\* token that is mailed
C17_Witness ==
  /\ Done(1, "forgot")
  /\ resp[1].status = 200
  /\ loc[1].mail # Null
  /\ loc[1].mail.token = ResetTokenFor(req[1].email, 1)
  /\ \E i \in UsersByEmail(req[1].email) : users[i].passwordToken = loc[1].mail.token

\* C18: every JSON response carries a code field equal to the HTTP status
\* it is sent with: 200 for the answers built by HttpResponse.get, 201 for
\* HttpResponse.created, 401 for the answers of the gate, and the status of
\* the error for the answers of the error boundary.
C18_CodeMirrorsStatus ==
  \A p \in Procs :
    resp[p] # Null =>
      /\ "code" \in DOMAIN resp[p].body
      /\ resp[p].body.code = resp[p].status
      /\ "message" \in DOMAIN resp[p].body
      /\ resp[p].kind = "gate" => resp[p].status = 401
      /\ (resp[p].kind = "ok" /\ req[p].op = "register") => resp[p].status = 201
      /\ (resp[p].kind = "ok" /\ req[p].op # "register") => resp[p].status = 200
      /\ resp[p].kind \notin {"ok", "gate"} => resp[p].status >= 400

\* a registration answered 201: the properties of createUser's result are
\* spread over the envelope, the code stays 201
C18_Witness ==
  /\ Done(1, "register")
  /\ resp[1].status = 201
  /\ resp[1].body.code = 201
  /\ resp[1].body.userId = loc[1].uid
  /\ resp[1].body.message # "data has been created"

\* C19: every error raised while a request is handled ends in a JSON error
\* response: a typed service error with the status of its kind, and an
\* error that no handler of the boundary recognises with a generic 500
\* whose body holds a message and nothing of the error's stack.
C19_ErrorsEndInJson ==
  \A p \in Procs :
    (resp[p] # Null /\ resp[p].status >= 400) =>
      /\ "message" \in DOMAIN resp[p].body
      /\ "code" \in DOMAIN resp[p].body
      /\ DOMAIN resp[p].body \subseteq {"code", "message", "errors"}
      /\ resp[p].kind \in {"NotFound", "BadRequest", "Unauthorized", "Forbidden"}
           => resp[p].status = StatusCode(resp[p].kind)

\* C20: no operation of the auth surface (register, login, logout, request
\* reset, reset password) removes a user row: every step keeps each row's
\* id and email, so the set of user ids only grows, and the stored emails
\* stay pairwise different.
UniqueEmails(table) ==
  \A i, j \in 1..Len(table) : table[i].email = table[j].email => i = j

C20_Step ==
  /\ Len(users') >= Len(users)
  /\ \A i \in UserIdx :
       users'[i].id = users[i].id /\ users'[i].email = users[i].email
  /\ {users[i].id : i \in UserIdx} \subseteq {users'[i].id : i \in 1..Len(users')}
  /\ \A i, j \in 1..Len(users') : users'[i].id = users'[j].id => i = j
  /\ UniqueEmails(users) /\ UniqueEmails(users')

C20_UsersOnlyGrow == [][C20_Step]_vars

\* a user was registered, another one has reset the password, and a logout
\* has just been answered
C20_Witness ==
  /\ Done(1, "logout")
  /\ resp[1].status = 200
  /\ \E i \in UserIdx : users[i].password = hash("p2")
  /\ \E i \in UserIdx, t \in 0..now :
       users[i].passwordToken = VerificationTokenFor(users[i].email, t)


\* a number, in the widest reading: an optional minus sign, then digits only
IsNumber(s) ==
  LET u == IF s # <<>> /\ Head(s) = "-" THEN Tail(s) ELSE s
  IN u # <<>> /\ LeadDigits(u) = Len(u)

NumberVal(s) ==
  IF Head(s) = "-" THEN -DecVal(Tail(s), 0) ELSE DecVal(s, 0)

\* C21: ms(value) returns n times the unit length when value is a number n
\* followed by one unit character, and throws "Invalid time format" for
\* every other string.
C21_MsStrict ==
  \A p \in Procs :
    (pc[p] = "done" /\ req[p].op = "ms") =>
      LET value == loc[p].arg
          n == Len(value)
          wellFormed == /\ n >= 2
                        /\ value[n] \in DOMAIN TIME_UNITS
                        /\ IsNumber(SubSeq(value, 1, n - 1))
      IN IF wellFormed
         THEN loc[p].ret = [ok |-> TRUE,
                            v |-> NumberVal(SubSeq(value, 1, n - 1)) * TIME_UNITS[value[n]]]
         ELSE ~loc[p].ret.ok


\* C22: after a user has logged in twice and received t1 and then a
\* different t2, the gate answers every later request that presents t1 with
\* 401 (no valid session).  A request with a verified token arrives at the
\* gate while no other request is in flight and the table holds a token
\* issued to the same user by a later login: the session lookup that
\* follows finds no row for the presented token.
C22_Step ==
  \A p \in Procs :
    ( /\ pc[p] = "idle"
      /\ pc'[p] = "gate_session"
      /\ \A q \in Procs \ {p} : pc[q] = "idle"
      /\ IsJwt(loc'[p].tok)
      /\ \E row \in BagToSet(sessions) :
           /\ row.userId = loc'[p].tok.payload.userId
           /\ row.token.iat > loc'[p].tok.iat )
    => getByToken(loc'[p].tok) = Null

C22_OlderTokenRejected == [][C22_Step]_vars


\* C23: resetPassword accepts only a token issued by requestPasswordReset
\* for that email; a token of another kind signed with the same secret, such
\* as the email-verification token of the registration, sets no password.
C23_Step ==
  \A p \in Procs :
    (pc[p] = "idle" /\ pc'[p] = "reset_update") =>
      /\ IsJwt(req'[p].token)
      /\ req'[p].token.payload = [email |-> req'[p].email, type |-> "password-reset"]

C23_OnlyResetTokens == [][C23_Step]_vars


\* C24: a user whose soft-delete flag is set is absent for every auth
\* operation alike: a login for an email that getUserByEmail does not find
\* (the lookup of requestPasswordReset) generates no access token, and no
\* session is written for a soft-deleted user.
C24_Step ==
  \A p \in Procs :
    /\ (pc[p] = "idle" /\ req'[p].op = "login" /\ getUserByEmail(req'[p].email) = Null)
         => (loc'[p].gen = Null /\ pc'[p] = "done" /\ resp'[p].status # 200)
    /\ (pc[p] = "session_write" /\ sessions' # sessions)
         => ~users[loc[p].uid].isDeleted

C24_DeletedUserIsAbsent == [][C24_Step]_vars


IsResetTokenFor(token, email) ==
  IsJwt(token) /\ token.payload = [email |-> email, type |-> "password-reset"]

\* C25: at most one reset token is valid per user at any time.  Each
\* requestPasswordReset stores the token it issues in place of the one
\* before; while a reset token is stored for an email, resetPassword with
\* that token goes through and ends in 200, and resetPassword with any other
\* token, an earlier reset token of that email among them, fails with
\* invalid-or-expired and changes nothing.
C25_Step ==
  \A p \in Procs :
    /\ (pc[p] = "forgot_update" /\ pc'[p] # pc[p]) =>
         \A i \in UsersByEmail(req[p].email) : users'[i].passwordToken = loc[p].gen
    /\ ( /\ pc[p] = "idle" /\ req'[p].op = "reset"
         /\ \E i \in UsersByEmail(req'[p].email) :
              IsResetTokenFor(users[i].passwordToken, req'[p].email) )
       => IF \A i \in UsersByEmail(req'[p].email) : users[i].passwordToken = req'[p].token
          THEN pc'[p] = "reset_update"
          ELSE InvalidOrExpired(resp'[p]) /\ pc'[p] = "done" /\ users' = users
    /\ (pc[p] = "reset_update" /\ pc'[p] # pc[p]) => pc'[p] = "reset_mail"
    /\ (pc[p] = "reset_mail" /\ pc'[p] # pc[p]) =>
         (pc'[p] = "done" /\ resp'[p].status = 200)

C25_OneResetTokenPerUser == [][C25_Step]_vars

\* two reset tokens of one email: the one issued first is presented while
\* the later one is stored, and is refused
C25_Witness ==
  /\ Done(1, "reset")
  /\ InvalidOrExpired(resp[1])
  /\ IsResetTokenFor(req[1].token, req[1].email)
  /\ \E i \in UsersByEmail(req[1].email) :
       /\ IsResetTokenFor(users[i].passwordToken, req[1].email)
       /\ users[i].passwordToken.iat > req[1].token.iat


\* C29: for N rows matching the criteria, findPage with page p >= 1 and page
\* size s >= 1 returns the matching rows at positions (p-1)*s .. p*s - 1 of
\* the query order, never more than s rows, and hasMore is true exactly when
\* N > p*s; a missing page counts as 1 and a missing page size as 20.
C29_PageWindow ==
  \A q \in Procs :
    (pc[q] = "done" /\ req[q].op = "findPage") =>
      LET config == loc[q].arg.config
          page == IF config.paging = Null THEN NoNum ELSE config.paging.page
          size == IF config.paging = Null THEN NoNum ELSE config.paging.pageSize
          p == IF page = NoNum THEN 1 ELSE page
          s == IF size = NoNum THEN 20 ELSE size
          all == queryMany(loc[q].arg.table, config)
          N == Len(all)
          ret == loc[q].ret
      IN (p >= 1 /\ s >= 1) =>
           /\ Len(ret.result) <= s
           /\ Len(ret.result) = (IF N >= p * s THEN s
                                 ELSE IF N > (p - 1) * s THEN N - (p - 1) * s ELSE 0)
           /\ \A i \in 1..Len(ret.result) : ret.result[i] = all[(p - 1) * s + i]
           /\ ret.hasMore <=> (N > p * s)

\* the default page of 20 rows out of more than 20, with more to come
C29_Witness ==
  /\ Done(1, "findPage")
  /\ loc[1].arg.config.paging = Null
  /\ Len(loc[1].ret.result) = 20
  /\ loc[1].ret.hasMore


LastLog(m) == IF m.log = <<>> THEN NoStr ELSE m.log[Len(m.log)]

\* the connection check is under way
Checking == main.pc \in {"db_execute", "db_delay"}

\* an attempt of the connection check is made at this step
C26_Step ==
  main'.attempts # main.attempts =>
    /\ main.pc = "db_execute"
    /\ main'.attempts = main.attempts + 1
    /\ LastLog(main') = "Database connected" => main'.pc = "db_resolved"
    /\ main'.pc = "db_rejected" <=>
         (LastLog(main') # "Database connected" /\ main'.attempts = 4)

\* C26: checkDbConnection always terminates: it makes at most
\* MAX_RETRIES + 1 = 4 connection attempts, resolves at the first attempt
\* that succeeds and makes no attempt after it, and rethrows the connection
\* error after the fourth failure in a row.
C26_CheckTerminates ==
  /\ [](main.attempts <= 4)
  /\ [](main.pc = "db_rejected" => main.attempts = 4)
  /\ [][C26_Step]_vars
  /\ Checking ~> ~Checking

\* the fourth attempt has failed and the error is thrown on
C26_Witness ==
  /\ main.pc = "db_rejected"
  /\ main.attempts = 4
  /\ LastLog(main) = "Unable to connect to the database:"


Logged(line) == \E i \in 1..Len(main.log) : main.log[i] = line

C27_Step ==
  /\ (~main.listening /\ main'.listening) =>
       (main.pc = "db_resolved" /\ LastLog(main) = "Database connected")
  /\ (main.pc = "db_rejected" /\ main' # main) =>
       /\ main'.exitCode = 1
       /\ ~main'.listening
       /\ LastLog(main') = "Bootstrap error:"

\* C27: at startup the HTTP server starts listening only after
\* checkDbConnection has succeeded; when it fails after all its
\* retries, bootstrap logs the error and exits the process with code 1, and
\* the server never listens.
C27_ListenAfterDbCheck ==
  /\ [][C27_Step]_vars
  /\ []((main.listening \/ Logged("Server running on port")) =>
          Logged("Database connected"))
  /\ [](Logged("Unable to connect to the database:") =>
          /\ ~main.listening
          /\ ~Logged("Server running on port")
          /\ main.pc \in {"db_rejected", "exited"}
          /\ main.pc = "exited" => main.exitCode = 1)

\* checkDbConnection has failed four times and the process has exited with 1
C27_Witness ==
  /\ main.pc = "exited"
  /\ main.exitCode = 1
  /\ main.attempts = 4
  /\ LastLog(main) = "Bootstrap error:"
  /\ ~Logged("Server running on port")


\* the shutdown has begun: a handler of setupGracefulShutdown has run
ShuttingDown == main.signals # <<>>

C28_Step ==
  (ShuttingDown /\ Alive /\ ~Alive') =>
    \/ /\ main'.exitCode = 0
       /\ main.closing
       /\ \A p \in Procs : pc[p] = "idle"
       /\ LastLog(main') = "HTTP server closed"
    \/ /\ main'.exitCode = 1
       /\ main.timers > 0
       /\ LastLog(main') = "Forced shutdown after timeout"

\* C28: after SIGTERM, SIGINT or an uncaught exception the process exits in
\* the end: with code 0 when the HTTP server has finished closing before the
\* forced-shutdown timer fires, with code 1 when that timer fires first; a
\* second signal during the shutdown changes nothing in this.
C28_ShutdownEnds ==
  /\ [][C28_Step]_vars
  /\ []((ShuttingDown /\ ~Alive) => main.exitCode \in {0, 1})
  /\ ShuttingDown ~> main.pc = "exited"

\* two signals, a request that never ended, and the timer has forced the exit
C28_Witness ==
  /\ main.pc = "exited"
  /\ main.exitCode = 1
  /\ Len(main.signals) = 2
  /\ \E p \in Procs : pc[p] \notin {"idle", "done"}

====
